---- MODULE Spec2Model ----
(***************************************************************************)
(* Data-ingestion layer of trete_backtest (data/tiingo_loader.py):         *)
(* the retrying Tiingo fetch, the FRED VIX fetch and the two cache-aside   *)
(* loaders load_ticker / load_vix over the CSV cache directory.            *)
(*                                                                         *)
(* One call is in flight at a time (the module is synchronous).  A call is *)
(* a sequence of steps: Call, then one step per HTTP attempt, then         *)
(* os.makedirs, the opening of the CSV file, its write, and Return.        *)
(*                                                                         *)
(* Modelling conventions                                                   *)
(*  - a date is a calendar day number: the provider is asked for daily    *)
(*    bars (resampleFreq=daily), whose timestamps carry no time of day;    *)
(*  - prices and volumes are small integers; a cell text is the number     *)
(*    as to_csv prints it for the column's dtype ("7" or "7.0");           *)
(*  - a missing value (JSON null, CSV '.', pandas NaN) is the value NaN;   *)
(*  - a Python exception is a record [exc, msg, attempts, status, cause].  *)
(***************************************************************************)
EXTENDS Integers, Sequences, FiniteSets, TLC

\* ------------------------------------------------------------------ bounds
\* Largest number of records in one provider response.
MaxLen == 2

\* Largest number of rows of an input of the frame computations (the
\* specification SpecFrames).
MaxRecords == 3

\* ------------------------------------------------------- program constants
_MAX_RETRIES == 3
_BACKOFF_SECONDS == <<1, 2, 4>>

\* pandas' missing value (a JSON null, a '.' cell of the FRED feed).
NaN == -1

\* ------------------------------------------------------------ input domain
Dates == {1, 2}

\* Ticker strings a caller may pass, and str.upper() on them.
Tickers == {"spy", "VIX"}

upper(t) ==
    IF t = "spy" THEN "SPY" ELSE t

\* One daily record of the price provider: the date, the three required
\* fields and a field the loader does not keep.
ProviderRecords ==
    { [date |-> d, close |-> r[1], adjOpen |-> r[1], adjClose |-> r[1] + 1,
       adjVolume |-> r[2]] : d \in Dates, r \in {<<10, 7>>, <<11, NaN>>} }

\* One row of the FRED feed: DATE and VIXCLS ('.' when missing).
VixRows ==
    UNION { { [date |-> d, vix_close |-> v] : v \in {NaN, 14 + d} } : d \in Dates }

SeqsUpTo(S, n) ==
    UNION { [1..k -> S] : k \in 0..n }

ApiKeys == {"", "TEST_KEY"}

\* What one HTTP GET can come back with: a transport failure (status 0), or
\* a status with a body that is either empty (zero bytes) or a JSON list of
\* records.
Statuses == {200, 204, 304, 401, 404, 429, 503}

NoRecords == << >>

TiingoResponses ==
    { [transport |-> t, status |-> 0, body |-> "empty", records |-> NoRecords] :
        t \in {"ConnectionError", "ReadTimeout"} }
    \cup { [transport |-> "ok", status |-> s, body |-> "empty", records |-> NoRecords] :
        s \in Statuses }
    \cup { [transport |-> "ok", status |-> s, body |-> "json", records |-> b] :
        s \in {200, 304}, b \in SeqsUpTo(ProviderRecords, MaxLen) }

\* What the call remembers of a response: how the GET ended, and whether
\* the body held records.
Seen(r) ==
    [transport |-> r.transport, status |-> r.status,
     body |-> IF r.body = "json" /\ r.records # NoRecords THEN "records" ELSE r.body]

NotSeen == [transport |-> "none", status |-> 0, body |-> "empty"]

\* The FRED endpoint: a transport failure, an error status, or the CSV feed.
VixResponses ==
    { [transport |-> t, status |-> 0, body |-> "empty", records |-> NoRecords] :
        t \in {"ConnectionError", "ReadTimeout"} }
    \cup { [transport |-> "ok", status |-> s, body |-> "empty", records |-> NoRecords] :
        s \in {404, 503} }
    \cup { [transport |-> "ok", status |-> 200, body |-> "csv", records |-> b] :
        b \in SeqsUpTo(VixRows, MaxLen) }

\* ------------------------------------------------------------ data frames
\* A DataFrame: its value columns, its rows in index order and the dtype of
\* the adjVolume column ("none" when there is no such column).
PriceColumns == <<"adjOpen", "adjClose", "adjVolume">>
VixColumns == <<"vix_close">>

NoFrame == [columns |-> << >>, rows |-> << >>, volume_dtype |-> "none"]

Range(s) == { s[i] : i \in DOMAIN s }

\* df[["adjOpen", "adjClose", "adjVolume"]] with the date as index.
KeepColumns(records) ==
    [ i \in DOMAIN records |->
        [date |-> records[i].date, adjOpen |-> records[i].adjOpen,
         adjClose |-> records[i].adjClose, adjVolume |-> records[i].adjVolume] ]

\* adjVolume: int64 if no NaN, else float64.
VolumeDtype(rows) ==
    IF \E i \in DOMAIN rows : rows[i].adjVolume = NaN THEN "float64" ELSE "int64"

IsMonotonicIncreasing(rows) ==
    \A i \in DOMAIN rows : \A j \in DOMAIN rows : i < j => rows[i].date <= rows[j].date

HasDuplicates(rows) ==
    \E i \in DOMAIN rows : \E j \in DOMAIN rows : i < j /\ rows[i].date = rows[j].date

\* DataFrame.sort_index(): an index that is already monotonic is returned as
\* it is; otherwise the rows are reordered by the default sort kind
\* ("quicksort"), which is not stable: rows of equal date may come out in
\* any order.
SortIndex(rows) ==
    IF IsMonotonicIncreasing(rows)
    THEN { rows }
    ELSE { s \in { [i \in DOMAIN rows |-> rows[p[i]]] : p \in Permutations(DOMAIN rows) } :
             IsMonotonicIncreasing(s) }

\* The indices of rows kept by ~df.index.duplicated(keep="first").
KeptFirst(rows) ==
    { i \in DOMAIN rows : \A j \in DOMAIN rows : j < i => rows[j].date # rows[i].date }

RECURSIVE Select(_, _, _)
Select(rows, keep, i) ==
    IF i > Len(rows) THEN << >>
    ELSE IF i \in keep THEN <<rows[i]>> \o Select(rows, keep, i + 1)
    ELSE Select(rows, keep, i + 1)

\* Mutant of DropDuplicates: duplicate dates are kept.
DropDuplicatesNone(rows) ==
    rows

DropDuplicates(rows) ==
    IF HasDuplicates(rows) THEN Select(rows, KeptFirst(rows), 1) ELSE rows

\* Lines 87-111 of fetch_ticker_from_tiingo: the frames the call can return
\* for a non-empty list of records.
FetchFrames(records) ==
    LET kept == KeepColumns(records)
        dtype == VolumeDtype(kept)
    IN  { [columns |-> PriceColumns, rows |-> DropDuplicates(s), volume_dtype |-> dtype] :
            s \in SortIndex(kept) }

\* Series.ffill(): each missing value takes the last valid value above it
\* in row order; a missing value with none above stays missing.
RECURSIVE Ffill(_, _, _)
Ffill(rows, i, last) ==
    IF i > Len(rows) THEN << >>
    ELSE LET v == IF rows[i].vix_close = NaN THEN last ELSE rows[i].vix_close
         IN  <<[date |-> rows[i].date, vix_close |-> v]>> \o Ffill(rows, i + 1, v)

\* dropna(subset=["vix_close"]).
DropNa(rows) ==
    Select(rows, { i \in DOMAIN rows : rows[i].vix_close # NaN }, 1)

\* Lines 178-197 of fetch_vix.
FetchVixFrames(rows) ==
    { [columns |-> VixColumns, rows |-> s, volume_dtype |-> "none"] :
        s \in SortIndex(DropNa(Ffill(rows, 1, NaN))) }

\* -------------------------------------------------------------- CSV files
\* A file of the cache directory: whether it exists, its header line (the
\* column names, empty for a file of zero bytes) and its data lines, each a
\* sequence of cell texts.
NoFile == [exists |-> FALSE, header |-> << >>, lines |-> << >>]
EmptyFile == [exists |-> TRUE, header |-> << >>, lines |-> << >>]

\* date_format="%Y-%m-%d".
DateText(d) == "2024-01-0" \o ToString(d)

IntText(v) == ToString(v)
FloatText(v) == ToString(v) \o ".0"

\* A cell of a numeric column: empty for NaN, else by the column's dtype.
NumText(v, dtype) ==
    IF v = NaN THEN "" ELSE IF dtype = "int64" THEN IntText(v) ELSE FloatText(v)

\* The numbers a cell can hold.
Numbers == 0..20

ParseDate(text) == CHOOSE d \in Dates : DateText(d) = text

\* read_csv's number parser: an empty cell is NaN.
ParseNum(text) ==
    IF text = "" THEN NaN
    ELSE CHOOSE v \in Numbers : IntText(v) = text \/ FloatText(v) = text

\* DataFrame.to_csv(cache_path, date_format="%Y-%m-%d"): the complete file.
ToCsv(df) ==
    [exists |-> TRUE,
     header |-> <<"date">> \o df.columns,
     lines |-> [ i \in DOMAIN df.rows |->
        IF df.columns = PriceColumns
        THEN <<DateText(df.rows[i].date), FloatText(df.rows[i].adjOpen),
               FloatText(df.rows[i].adjClose),
               NumText(df.rows[i].adjVolume, df.volume_dtype)>>
        ELSE <<DateText(df.rows[i].date), FloatText(df.rows[i].vix_close)>> ]]

\* What a to_csv that stops between the opening of the file and its close
\* can leave at the path: nothing written yet, or the header and the first n
\* lines (cuts inside a line are left out).
TornFiles(df) ==
    { EmptyFile }
    \cup { [exists |-> TRUE, header |-> ToCsv(df).header,
            lines |-> SubSeq(ToCsv(df).lines, 1, n)] : n \in 0..Len(df.rows) }

\* The position of column name c in a header (0 when absent).
ColumnIndex(header, c) ==
    IF \E i \in DOMAIN header : header[i] = c
    THEN CHOOSE i \in DOMAIN header : header[i] = c
    ELSE 0

\* ------------------------------------------------------------- exceptions
\* A raised exception: its Python class, what its message says, the attempt
\* count and HTTP status the message carries (0 when it carries none) and
\* the exception it was raised from ("" when none).
Raise(exc, msg) ==
    [exc |-> exc, msg |-> msg, attempts |-> 0, status |-> 0, cause |-> ""]

\* No exception: the call is running, or has returned a frame.
NoError == Raise("", "")

\* read_csv(cache_path, parse_dates=["date"], index_col="date"): the rows
\* of a file that has a header, one record per line keyed by column name.
ReadRows(file) ==
    [ i \in DOMAIN file.lines |->
        [ c \in Range(file.header) |->
            IF c = "date"
            THEN ParseDate(file.lines[i][ColumnIndex(file.header, c)])
            ELSE ParseNum(file.lines[i][ColumnIndex(file.header, c)]) ] ]

\* The value columns of a file read with index_col="date".
ReadColumns(file) ==
    SelectSeq(file.header, LAMBDA c : c # "date")

\* Lines 129-136 of load_ticker: what reading the artifact gives, as
\* [error, df].  A file of zero bytes makes read_csv raise EmptyDataError; a
\* file without the price columns makes df["adjOpen"] raise KeyError.
ReadTickerCsv(file) ==
    IF file.header = << >>
    THEN [error |-> Raise("EmptyDataError", "No columns to parse from file"), df |-> NoFrame]
    ELSE IF \E c \in Range(PriceColumns) : c \notin Range(file.header)
    THEN [error |-> Raise("KeyError", "adjOpen"), df |-> NoFrame]
    ELSE [error |-> NoError,
          df |-> [columns |-> ReadColumns(file), rows |-> ReadRows(file),
                  volume_dtype |-> VolumeDtype(ReadRows(file))]]

\* Lines 209-211 of load_vix.
ReadVixCsv(file) ==
    IF file.header = << >>
    THEN [error |-> Raise("EmptyDataError", "No columns to parse from file"), df |-> NoFrame]
    ELSE IF "vix_close" \notin Range(file.header)
    THEN [error |-> Raise("KeyError", "vix_close"), df |-> NoFrame]
    ELSE [error |-> NoError,
          df |-> [columns |-> ReadColumns(file), rows |-> ReadRows(file),
                  volume_dtype |-> "none"]]

\* ------------------------------------------------------------------ state
VARIABLES
    cache,       \* the files of config.cache_dir, by file name
    dir_exists,  \* whether config.cache_dir exists
    pc,          \* where the call in flight stands ("idle" when none is)
    call,        \* the call in flight: its function and arguments
    path,        \* the branch a load took: "hit", "miss" ("none" for a fetch)
    attempt,     \* the loop variable of the retry loop
    requests,    \* HTTP GETs issued by the call in flight
    sleeps,      \* the time.sleep() arguments of the call in flight, in order
    last,        \* what the latest GET of the call came back with
    df,          \* the frame the call holds, and returns
    error        \* the exception the call ended with (NoError when none)

vars == <<cache, dir_exists, pc, call, path, attempt, requests, sleeps, last, df, error>>

Files == { upper(t) \o ".csv" : t \in Tickers } \cup { "VIX.csv" }

NoCall == [op |-> "none", ticker |-> "", use_cache |-> FALSE, api_key |-> ""]

\* cache_path of the load in flight (lines 126 and 206).
CachePath(c) ==
    IF c.op = "load_vix" THEN "VIX.csv" ELSE upper(c.ticker) \o ".csv"

\* Mutant of CacheHit: the artifact is never trusted.
CacheHitNever(use_cache, file) ==
    FALSE

\* config.use_cache and cache_path.exists() (lines 128 and 208).
CacheHit(use_cache, file) ==
    use_cache /\ file.exists

\* Mutant of KeyIsEmpty: the key check is missing.
KeyIsEmptyNever(api_key) ==
    FALSE

\* if not api_key (line 36).
KeyIsEmpty(api_key) ==
    api_key = ""

\* Mutant of IsRetryStatus: every error status is retried.
IsRetryStatusAnyError(status) ==
    status >= 400

\* response.status_code == 429 or response.status_code >= 500 (line 57).
IsRetryStatus(status) ==
    status = 429 \/ status >= 500

\* Mutant of MayRetry: the loop gives up one attempt early.
MayRetryOneFewer(n) ==
    n < _MAX_RETRIES - 1

\* attempt < _MAX_RETRIES (lines 58 and 72).
MayRetry(n) ==
    n < _MAX_RETRIES

\* Mutant of Backoff: a constant wait instead of the schedule.
BackoffConstant(n) ==
    _BACKOFF_SECONDS[1]

\* Mutant of Backoff: the schedule read from its end.
BackoffReversed(n) ==
    _BACKOFF_SECONDS[_MAX_RETRIES - n]

\* _BACKOFF_SECONDS[attempt], attempt counted from 0.
Backoff(n) ==
    _BACKOFF_SECONDS[n + 1]

\* Mutant of IsEmptyData: the emptiness check is missing.
IsEmptyDataNever(records) ==
    FALSE

\* if not data (line 84).
IsEmptyData(records) ==
    records = << >>

\* response.raise_for_status(): HTTPError for 4xx and 5xx.
RaisesForStatus(status) ==
    400 <= status /\ status < 600

Init ==
    /\ cache = [f \in Files |-> NoFile]
    /\ dir_exists = FALSE
    /\ pc = "idle"
    /\ call = NoCall
    /\ path = "none"
    /\ attempt = 0
    /\ requests = 0
    /\ sleeps = << >>
    /\ last = NotSeen
    /\ df = NoFrame
    /\ error = NoError

\* Mutant of Fail: a load whose fetch fails falls back to the artifact at
\* its cache path when there is one.
FailFallingBack(e) ==
    /\ pc' = "done"
    /\ IF pc = "get" /\ call.op = "load_ticker" /\ cache[CachePath(call)].exists
       THEN /\ error' = ReadTickerCsv(cache[CachePath(call)]).error
            /\ df' = ReadTickerCsv(cache[CachePath(call)]).df
       ELSE /\ error' = e
            /\ df' = NoFrame

\* Mutant of Fail: a load goes on to save although its fetch has failed.
FailThenSave(e) ==
    /\ pc' = IF pc \in {"get", "get_vix"} /\ call.op \in {"load_ticker", "load_vix"}
             THEN "makedirs" ELSE "done"
    /\ error' = e
    /\ df' = NoFrame

\* The call ends by raising e.
Fail(e) ==
    /\ pc' = "done"
    /\ error' = e
    /\ df' = NoFrame

\* Lines 36-52: the key check, then the retry loop starts.
StartFetch(api_key) ==
    /\ attempt' = 0
    /\ requests' = 0
    /\ sleeps' = << >>
    /\ last' = NotSeen
    /\ IF KeyIsEmpty(api_key)
       THEN Fail(Raise("ValueError", "API key must not be empty"))
       ELSE pc' = "get" /\ error' = NoError /\ df' = NoFrame

\* A caller calls fetch_ticker_from_tiingo directly.
CallFetchTicker ==
    /\ pc = "idle"
    /\ \E t \in Tickers, k \in ApiKeys :
        /\ call' = [op |-> "fetch_ticker_from_tiingo", ticker |-> t,
                    use_cache |-> FALSE, api_key |-> k]
        /\ StartFetch(k)
    /\ path' = "none"
    /\ UNCHANGED <<cache, dir_exists>>

\* load_ticker, lines 126-144: the cache branch, else the fetch begins.
CallLoadTicker ==
    /\ pc = "idle"
    /\ \E t \in Tickers, u \in BOOLEAN, k \in ApiKeys :
        LET c == [op |-> "load_ticker", ticker |-> t, use_cache |-> u, api_key |-> k]
            file == cache[CachePath(c)]
        IN  /\ call' = c
            /\ IF CacheHit(u, file)
               THEN /\ path' = "hit"
                    /\ pc' = "done"
                    /\ error' = ReadTickerCsv(file).error
                    /\ df' = ReadTickerCsv(file).df
                    /\ UNCHANGED <<attempt, requests, sleeps, last>>
               ELSE /\ path' = "miss"
                    /\ StartFetch(k)
    /\ UNCHANGED <<cache, dir_exists>>

\* One pass of the retry loop, lines 53-111: the GET, the status checks, the
\* sleep before the next pass, and on success the parsing of the body.
Get ==
    /\ pc = "get"
    /\ \E r \in TiingoResponses :
        /\ requests' = requests + 1
        /\ last' = Seen(r)
        /\ IF r.transport = "ConnectionError"
           THEN \* except requests.exceptions.ConnectionError (lines 70-77)
                IF MayRetry(attempt)
                THEN /\ sleeps' = Append(sleeps, Backoff(attempt))
                     /\ attempt' = attempt + 1
                     /\ UNCHANGED <<pc, error, df>>
                ELSE /\ Fail([exc |-> "ConnectionError", msg |-> "Connection failed",
                              attempts |-> _MAX_RETRIES + 1, status |-> 0,
                              cause |-> "requests.ConnectionError"])
                     /\ UNCHANGED <<sleeps, attempt>>
           ELSE IF r.transport = "ReadTimeout"
           THEN \* no handler: the requests exception leaves the call
                /\ Fail(Raise("requests.ReadTimeout", "Read timed out"))
                /\ UNCHANGED <<sleeps, attempt>>
           ELSE IF IsRetryStatus(r.status)
           THEN \* lines 57-63
                IF MayRetry(attempt)
                THEN /\ sleeps' = Append(sleeps, Backoff(attempt))
                     /\ attempt' = attempt + 1
                     /\ UNCHANGED <<pc, error, df>>
                ELSE /\ Fail([exc |-> "ConnectionError", msg |-> "HTTP status",
                              attempts |-> _MAX_RETRIES + 1, status |-> r.status,
                              cause |-> ""])
                     /\ UNCHANGED <<sleeps, attempt>>
           ELSE IF r.status = 404
           THEN \* lines 65-66
                /\ Fail(Raise("ValueError", "Ticker not found on Tiingo (404)"))
                /\ UNCHANGED <<sleeps, attempt>>
           ELSE IF RaisesForStatus(r.status)
           THEN \* line 68
                /\ Fail([exc |-> "requests.HTTPError", msg |-> "Client Error",
                         attempts |-> 0, status |-> r.status, cause |-> ""])
                /\ UNCHANGED <<sleeps, attempt>>
           ELSE IF r.body = "empty"
           THEN \* line 83: response.json() raises JSONDecodeError, a ValueError
                /\ Fail(Raise("ValueError", "JSONDecodeError: Expecting value"))
                /\ UNCHANGED <<sleeps, attempt>>
           ELSE IF IsEmptyData(r.records)
           THEN \* lines 84-85
                /\ Fail(Raise("ValueError", "Empty response for ticker"))
                /\ UNCHANGED <<sleeps, attempt>>
           ELSE \* lines 87-111
                /\ df' \in FetchFrames(r.records)
                /\ error' = NoError
                /\ pc' = IF call.op = "load_ticker" THEN "makedirs" ELSE "done"
                /\ UNCHANGED <<sleeps, attempt>>
    /\ UNCHANGED <<cache, dir_exists, call, path>>

\* Lines 168-173 of fetch_vix: the single GET is about to be issued.
StartFetchVix ==
    /\ attempt' = 0
    /\ requests' = 0
    /\ sleeps' = << >>
    /\ last' = NotSeen
    /\ pc' = "get_vix"
    /\ error' = NoError
    /\ df' = NoFrame

\* A caller calls fetch_vix directly.
CallFetchVix ==
    /\ pc = "idle"
    /\ call' = [op |-> "fetch_vix", ticker |-> "", use_cache |-> FALSE, api_key |-> ""]
    /\ path' = "none"
    /\ StartFetchVix
    /\ UNCHANGED <<cache, dir_exists>>

\* load_vix, lines 206-213.
CallLoadVix ==
    /\ pc = "idle"
    /\ \E u \in BOOLEAN, k \in ApiKeys :
        LET c == [op |-> "load_vix", ticker |-> "", use_cache |-> u, api_key |-> k]
            file == cache[CachePath(c)]
        IN  /\ call' = c
            /\ IF CacheHit(u, file)
               THEN /\ path' = "hit"
                    /\ pc' = "done"
                    /\ error' = ReadVixCsv(file).error
                    /\ df' = ReadVixCsv(file).df
                    /\ UNCHANGED <<attempt, requests, sleeps, last>>
               ELSE /\ path' = "miss"
                    /\ StartFetchVix
    /\ UNCHANGED <<cache, dir_exists>>

\* Lines 173-197 of fetch_vix: the GET, raise_for_status, and the parsing,
\* filling and sorting of the feed.  Nothing is caught and nothing retried.
GetVix ==
    /\ pc = "get_vix"
    /\ \E r \in VixResponses :
        /\ requests' = requests + 1
        /\ last' = Seen(r)
        /\ IF r.transport # "ok"
           THEN Fail(Raise("requests." \o r.transport, "transport failure"))
           ELSE IF RaisesForStatus(r.status)
           THEN Fail([exc |-> "requests.HTTPError", msg |-> "Error",
                      attempts |-> 0, status |-> r.status, cause |-> ""])
           ELSE /\ df' \in FetchVixFrames(r.records)
                /\ error' = NoError
                /\ pc' = IF call.op = "load_vix" THEN "makedirs" ELSE "done"
    /\ UNCHANGED <<cache, dir_exists, call, path, attempt, sleeps>>

\* os.makedirs(config.cache_dir, exist_ok=True) (lines 147 and 216).
Makedirs ==
    /\ pc = "makedirs"
    /\ dir_exists' = TRUE
    /\ pc' = "to_csv"
    /\ UNCHANGED <<cache, call, path, attempt, requests, sleeps, last, df, error>>

\* df.to_csv(cache_path, ...) opens cache_path for writing (lines 148 and
\* 217): the file is created, or truncated, in place.
OpenCsv ==
    /\ pc = "to_csv"
    /\ cache' = [cache EXCEPT ![CachePath(call)] = EmptyFile]
    /\ pc' = "writing"
    /\ UNCHANGED <<dir_exists, call, path, attempt, requests, sleeps, last, df, error>>

\* Mutant of WriteCsv: the load returns without writing the frame.
WriteCsvSkipped ==
    /\ pc = "writing"
    /\ pc' = "done"
    /\ UNCHANGED <<cache, dir_exists, call, path, attempt, requests, sleeps, last, df, error>>

\* to_csv writes the header and the lines and closes the file; the load
\* returns df (lines 150 and 219).
WriteCsv ==
    /\ pc = "writing"
    /\ cache' = [cache EXCEPT ![CachePath(call)] = ToCsv(df)]
    /\ pc' = "done"
    /\ UNCHANGED <<dir_exists, call, path, attempt, requests, sleeps, last, df, error>>

\* to_csv stops before the file is complete (the disk is full, the process
\* is killed): what was written so far stays at cache_path.
InterruptCsv ==
    /\ pc = "writing"
    /\ \E torn \in TornFiles(df) :
        cache' = [cache EXCEPT ![CachePath(call)] = torn]
    /\ Fail(Raise("OSError", "write interrupted"))
    /\ UNCHANGED <<dir_exists, call, path, attempt, requests, sleeps, last>>

\* The caller has the result; the next call may begin.
Return ==
    /\ pc = "done"
    /\ pc' = "idle"
    /\ call' = NoCall
    /\ path' = "none"
    /\ attempt' = 0
    /\ requests' = 0
    /\ sleeps' = << >>
    /\ last' = NotSeen
    /\ df' = NoFrame
    /\ error' = NoError
    /\ UNCHANGED <<cache, dir_exists>>

Next ==
    \/ CallFetchTicker
    \/ CallLoadTicker
    \/ CallFetchVix
    \/ CallLoadVix
    \/ Get
    \/ GetVix
    \/ Makedirs
    \/ OpenCsv
    \/ WriteCsv
    \/ InterruptCsv
    \/ Return

Spec == Init /\ [][Next]_vars

\* ------------------------------------------------- load_ticker calls only
\* The cache directory under load_ticker calls alone (no load_vix, no other
\* writer), from the empty directory.
NextLoadTicker ==
    \/ CallLoadTicker
    \/ Get
    \/ Makedirs
    \/ OpenCsv
    \/ WriteCsv
    \/ InterruptCsv
    \/ Return

SpecLoadTicker == Init /\ [][NextLoadTicker]_vars

\* ------------------------------------------------- the frame computations
\* The computations on frames, each applied to an input drawn at the start:
\* the parsing of a 200 response of the price provider (lines 83-111), the
\* parsing of the FRED feed (lines 178-197), and the reading of an artifact
\* that load_ticker finds in the cache directory (lines 128-136).

\* A 200 response of the price provider, with its records.
ParsedResponses ==
    { [transport |-> "ok", status |-> 200, body |-> "json", records |-> b] :
        b \in SeqsUpTo(ProviderRecords, MaxRecords) }

\* A 200 response of FRED, with its rows.
ParsedFeeds ==
    { [transport |-> "ok", status |-> 200, body |-> "csv", records |-> b] :
        b \in SeqsUpTo(VixRows, MaxRecords) }

\* An artifact put at the cache path by DataFrame.to_csv outside load_ticker
\* (as the fixtures of test_cache_roundtrip and test_load_ticker_from_fixture
\* are): price rows in any order, with or without a further column.
WithColumn(file, c) ==
    [exists |-> TRUE, header |-> Append(file.header, c),
     lines |-> [ i \in DOMAIN file.lines |-> Append(file.lines[i], file.lines[i][2]) ]]

FixtureArtifacts ==
    LET plain == { ToCsv([columns |-> PriceColumns, rows |-> KeepColumns(b),
                          volume_dtype |-> VolumeDtype(KeepColumns(b))]) :
                     b \in SeqsUpTo(ProviderRecords, MaxRecords) }
    IN  plain \cup { WithColumn(f, "close") : f \in plain }

InitFrames ==
    /\ dir_exists = FALSE
    /\ path = "none"
    /\ attempt = 0
    /\ sleeps = << >>
    /\ df = NoFrame
    /\ error = NoError
    /\ \/ /\ pc = "parse"
          /\ call = [op |-> "fetch_ticker_from_tiingo", ticker |-> "spy",
                     use_cache |-> FALSE, api_key |-> "TEST_KEY"]
          /\ requests = 1
          /\ last \in ParsedResponses
          /\ cache = [f \in Files |-> NoFile]
       \/ /\ pc = "parse_vix"
          /\ call = [op |-> "fetch_vix", ticker |-> "", use_cache |-> FALSE, api_key |-> ""]
          /\ requests = 1
          /\ last \in ParsedFeeds
          /\ cache = [f \in Files |-> NoFile]
       \/ /\ pc = "idle"
          /\ call = NoCall
          /\ requests = 0
          /\ last = NotSeen
          /\ \E a \in FixtureArtifacts :
                cache = [f \in Files |-> IF f = "SPY.csv" THEN a ELSE NoFile]

\* Lines 83-111 of fetch_ticker_from_tiingo on the response in last.
ParseTicker ==
    /\ pc = "parse"
    /\ IF IsEmptyData(last.records)
       THEN Fail(Raise("ValueError", "Empty response for ticker"))
       ELSE /\ df' \in FetchFrames(last.records)
            /\ error' = NoError
            /\ pc' = "done"
    /\ UNCHANGED <<cache, dir_exists, call, path, attempt, requests, sleeps, last>>

\* Lines 178-197 of fetch_vix on the feed in last.
ParseVix ==
    /\ pc = "parse_vix"
    /\ df' \in FetchVixFrames(last.records)
    /\ error' = NoError
    /\ pc' = "done"
    /\ UNCHANGED <<cache, dir_exists, call, path, attempt, requests, sleeps, last>>

NextFrames ==
    \/ ParseTicker
    \/ ParseVix
    \/ CallLoadTicker

SpecFrames == InitFrames /\ [][NextFrames]_vars

\* ----------------------------------------------------------------- claims
\* The call in flight runs fetch_ticker_from_tiingo (directly, or as the
\* fetch of a load_ticker that missed the cache).
TickerFetch ==
    \/ call.op = "fetch_ticker_from_tiingo"
    \/ call.op = "load_ticker" /\ path = "miss"

\* The latest GET ended in a retryable condition: 429, 5xx, or a connection
\* failure.
SeenRetryable ==
    \/ last.transport = "ConnectionError"
    \/ last.transport = "ok" /\ (last.status = 429 \/ last.status \in 500..599)

\* The artifact of the load in flight, and what a cache hit reads from it.
Artifact ==
    cache[CachePath(call)]

ReadArtifact ==
    IF call.op = "load_vix" THEN ReadVixCsv(Artifact) ELSE ReadTickerCsv(Artifact)

\* C1: a fetch_ticker_from_tiingo call with an empty api_key ends at once
\* with ValueError 'API key must not be empty', having issued no HTTP
\* request and performed no sleep.
C1_EmptyKeyFailsBeforeNetwork ==
    (TickerFetch /\ call.api_key = "") =>
        /\ pc = "done"
        /\ error.exc = "ValueError"
        /\ error.msg = "API key must not be empty"
        /\ requests = 0
        /\ sleeps = << >>

C1_Witness ==
    /\ call.op = "fetch_ticker_from_tiingo"
    /\ call.api_key = ""
    /\ pc = "done"
    /\ error.exc = "ValueError"

\* C2: a load with use_cache true whose artifact exists returns the
\* artifact's contents and issues no HTTP request, whatever the API key.
C2_CacheHitReturnsArtifact ==
    path = "hit" =>
        /\ requests = 0
        /\ sleeps = << >>
        /\ error = NoError
        /\ df = ReadArtifact.df
        /\ ToCsv(df).lines = Artifact.lines

\* C3: one fetch_ticker_from_tiingo call issues at most 4 GETs, issues a
\* further GET only after a 429, a 5xx or a connection failure, and sleeps
\* 1s, 2s, 4s, in this order, between consecutive attempts.
C3_RetryPolicy ==
    TickerFetch =>
        /\ requests <= 4
        /\ Len(sleeps) <= 3
        /\ sleeps = SubSeq(<<1, 2, 4>>, 1, Len(sleeps))
        /\ (pc = "get" /\ requests > 0) => SeenRetryable
        /\ pc = "get" => Len(sleeps) = requests
        /\ (pc # "get" /\ requests > 0) => Len(sleeps) = requests - 1

C3_Witness ==
    /\ TickerFetch
    /\ pc = "done"
    /\ requests = 4
    /\ sleeps = <<1, 2, 4>>

\* C4: a fetch whose 4 attempts all end in a retryable condition fails with
\* ConnectionError carrying the attempt count 4 and the last status or
\* exception; ConnectionError is raised only after 4 attempts and the
\* sleeps 1s, 2s, 4s.
C4_ExhaustionIsUnavailable ==
    (TickerFetch /\ pc = "done") =>
        /\ (requests = 4 /\ SeenRetryable) => error.exc = "ConnectionError"
        /\ error.exc = "ConnectionError" =>
            /\ requests = 4
            /\ sleeps = <<1, 2, 4>>
            /\ SeenRetryable
            /\ error.attempts = 4
            /\ IF last.transport = "ConnectionError"
               THEN error.cause = "requests.ConnectionError"
               ELSE error.status = last.status

C4_Witness ==
    /\ TickerFetch
    /\ pc = "done"
    /\ error.exc = "ConnectionError"
    /\ last.status = 503
    /\ requests = 4

\* C5: a 404 ends the fetch at once with the not-found ValueError: the call
\* is over, and no sleep follows the response.
C5_NotFoundImmediately ==
    (TickerFetch /\ last.transport = "ok" /\ last.status = 404) =>
        /\ pc = "done"
        /\ error.exc = "ValueError"
        /\ error.msg = "Ticker not found on Tiingo (404)"
        /\ Len(sleeps) = requests - 1

C5_Witness ==
    /\ TickerFetch
    /\ last.status = 404
    /\ requests = 3
    /\ pc = "done"

\* C6: a non-2xx status other than 404, 429 and 5xx ends the fetch with the
\* failure kind of retry exhaustion (ConnectionError), without a retry.
C6_OtherStatusIsUnavailable ==
    (/\ TickerFetch
     /\ last.transport = "ok"
     /\ last.status \notin 200..299
     /\ last.status \notin {404, 429}
     /\ last.status < 500) =>
        /\ pc = "done"
        /\ error.exc = "ConnectionError"
        /\ Len(sleeps) = requests - 1

\* C7: when attempt k+1 (k in 0..3) of a fetch returns 200 with at least
\* one record after k retryable failures, the fetch returns a frame, has
\* issued k+1 requests and slept exactly the first k of 1s, 2s, 4s, and
\* raises no ConnectionError.
C7_RetryRecovery ==
    (TickerFetch /\ last.transport = "ok" /\ last.status = 200 /\ last.body = "records") =>
        /\ error.exc # "ConnectionError"
        /\ requests \in 1..4
        /\ sleeps = SubSeq(<<1, 2, 4>>, 1, requests - 1)
        /\ (call.op = "fetch_ticker_from_tiingo" \/ pc = "makedirs") =>
            /\ pc \in {"done", "makedirs"}
            /\ error = NoError
            /\ df.rows # << >>

C7_Witness ==
    /\ call.op = "fetch_ticker_from_tiingo"
    /\ last.status = 200
    /\ last.body = "records"
    /\ pc = "done"
    /\ error = NoError
    /\ requests = 3
    /\ sleeps = <<1, 2>>

\* C8: a 2xx response whose body is empty or holds no record ends the fetch
\* with a ValueError of the empty-data kind, without a retry and without a
\* frame being returned.
C8_EmptyDataFails ==
    (/\ TickerFetch
     /\ last.transport = "ok"
     /\ last.status \in 200..299
     /\ last.body # "records") =>
        /\ pc = "done"
        /\ error.exc = "ValueError"
        /\ error.msg \in {"Empty response for ticker", "JSONDecodeError: Expecting value"}
        /\ df = NoFrame
        /\ Len(sleeps) = requests - 1

C8_Witness ==
    /\ TickerFetch
    /\ last.status = 200
    /\ last.body = "json"
    /\ pc = "done"
    /\ error.msg = "Empty response for ticker"

\* C9: when a load that missed the cache has returned, its artifact exists
\* and holds the returned frame, so that a load of the same series with
\* use_cache true hits the cache and reads the same rows; and a load that
\* hits the cache issues no HTTP request.
C9_WriteThroughBeforeReturn ==
    /\ (pc = "done" /\ path = "miss" /\ error = NoError) =>
        /\ Artifact = ToCsv(df)
        /\ CacheHit(TRUE, Artifact)
        /\ ReadArtifact.error = NoError
        /\ ReadArtifact.df.columns = df.columns
        /\ ReadArtifact.df.rows = df.rows
    /\ path = "hit" => requests = 0

C9_Witness ==
    /\ pc = "done"
    /\ path = "miss"
    /\ error = NoError
    /\ Len(df.rows) = 2
    /\ Artifact = ToCsv(df)

\* C10: the artifact is installed by an atomic replace: whenever a step
\* changes a file of the cache, the file becomes the complete CSV of the
\* frame being saved, so that no state holds a partly written artifact.
C10_AtomicReplace ==
    [][\A f \in Files : cache'[f] # cache[f] => cache'[f] = ToCsv(df)]_vars

\* A load (load_ticker or load_vix) that took the fetch path has ended, and
\* the inputs of its fetch make the fetch fail: an empty API key, a
\* transport failure, an error status, or a price response without records.
LoadOnFetchPath ==
    /\ call.op \in {"load_ticker", "load_vix"}
    /\ path = "miss"
    /\ pc = "done"

FetchInputFails ==
    \/ call.op = "load_ticker" /\ call.api_key = ""
    \/ last.transport \in {"ConnectionError", "ReadTimeout"}
    \/ last.transport = "ok" /\ last.status >= 400
    \/ call.op = "load_ticker" /\ last.transport = "ok" /\ last.body # "records"

\* C11: no fallback. A load that took the fetch path and whose fetch fails
\* ends with the failure of the fetch (for load_ticker: the API-key
\* ValueError, the not-found ValueError, ConnectionError after the retries,
\* the empty-data ValueError, or the requests exception that went through)
\* and returns no series, also when an artifact is present; and a load with
\* use_cache false never takes the cache-read path.
C11_NoFallback ==
    /\ (LoadOnFetchPath /\ FetchInputFails) =>
        /\ df = NoFrame
        /\ error # NoError
        /\ error.exc # "OSError"
        /\ call.op = "load_ticker" =>
            /\ call.api_key = "" => error.msg = "API key must not be empty"
            /\ SeenRetryable => error.exc = "ConnectionError"
            /\ last.transport = "ReadTimeout" => error.exc = "requests.ReadTimeout"
            /\ (last.transport = "ok" /\ last.status = 404) =>
                error.msg = "Ticker not found on Tiingo (404)"
            /\ (last.transport = "ok" /\ last.status < 400 /\ ~SeenRetryable) =>
                error.exc = "ValueError"
        /\ call.op = "load_vix" =>
            /\ last.transport # "ok" => error.exc = "requests." \o last.transport
            /\ last.transport = "ok" => error.exc = "requests.HTTPError"
    /\ (call.op \in {"load_ticker", "load_vix"} /\ ~call.use_cache) => path # "hit"

\* A load_ticker with use_cache false has failed with not-found while a
\* complete artifact of an earlier load is present.
C11_Witness ==
    /\ LoadOnFetchPath
    /\ call.op = "load_ticker"
    /\ ~call.use_cache
    /\ last.transport = "ok"
    /\ last.status = 404
    /\ error.exc = "ValueError"
    /\ df = NoFrame
    /\ Artifact.exists
    /\ Len(Artifact.lines) > 0

\* C12: cache round trip. When a load_ticker that missed the cache has
\* written the fetched series and returned, a load of the same ticker with
\* use_cache true reads a series equal to it in dates, values, row order,
\* column order and column types, the int-or-float type of the volume
\* column included.
C12_CacheRoundTrip ==
    (call.op = "load_ticker" /\ pc = "done" /\ path = "miss" /\ error = NoError) =>
        /\ CacheHit(TRUE, Artifact)
        /\ ReadArtifact.error = NoError
        /\ ReadArtifact.df.columns = df.columns
        /\ ReadArtifact.df.rows = df.rows
        /\ ReadArtifact.df.volume_dtype = df.volume_dtype

\* The dates of the rows are strictly ascending (so no date occurs twice).
StrictlyAscending(rows) ==
    \A i \in 1..Len(rows) - 1 : rows[i].date < rows[i + 1].date

\* fetch_ticker_from_tiingo has parsed the records in last and returned.
Parsed ==
    /\ call.op = "fetch_ticker_from_tiingo"
    /\ pc = "done"
    /\ error = NoError

\* C13: for every provider response with records, the series returned by
\* fetch_ticker_from_tiingo has strictly ascending dates without duplicates,
\* holds every date of the response, has exactly the columns adjOpen,
\* adjClose, adjVolume in that order, and its volume column is int64 if no
\* record of the response lacks the volume and float64 otherwise.
C13_NormalizedSeries ==
    Parsed =>
        /\ StrictlyAscending(df.rows)
        /\ {df.rows[i].date : i \in DOMAIN df.rows}
             = {last.records[i].date : i \in DOMAIN last.records}
        /\ df.columns = PriceColumns
        /\ \A i \in DOMAIN df.rows :
             DOMAIN df.rows[i] = {"date", "adjOpen", "adjClose", "adjVolume"}
        /\ df.volume_dtype =
             IF \A i \in DOMAIN last.records : last.records[i].adjVolume # NaN
             THEN "int64" ELSE "float64"

\* A response of three records, out of date order, with a duplicate date
\* and a missing volume.
C13_Witness ==
    /\ Parsed
    /\ Len(last.records) = 3
    /\ ~IsMonotonicIncreasing(last.records)
    /\ Len(df.rows) = 2
    /\ df.volume_dtype = "float64"

\* C14: the cache-read path of load_ticker normalizes as the network path
\* does: whatever the artifact holds (rows out of date order, duplicate
\* dates, further columns), a cache hit returns strictly ascending unique
\* dates and exactly the three price columns, a series that the network
\* path returns for the same raw rows.
C14_SameNormalizationOnCacheRead ==
    (call.op = "load_ticker" /\ path = "hit" /\ pc = "done" /\ error = NoError) =>
        /\ StrictlyAscending(df.rows)
        /\ df.columns = PriceColumns
        /\ df \in FetchFrames(ReadRows(Artifact))

\* The observations of a raw feed: its rows that hold a value.
Observations(raw) ==
    { raw[i] : i \in { j \in DOMAIN raw : raw[j].vix_close # NaN } }

\* The values that are due at date d: the values observed at d and, if a
\* row of date d holds no value, the value of the observation of the latest
\* earlier date.
DueAt(raw, d) ==
    { o.vix_close : o \in { x \in Observations(raw) : x.date = d } }
    \cup IF \E i \in DOMAIN raw : raw[i].date = d /\ raw[i].vix_close = NaN
         THEN { o.vix_close : o \in { x \in Observations(raw) :
                  /\ x.date < d
                  /\ \A y \in Observations(raw) : y.date < d => y.date <= x.date } }
         ELSE { }

\* C15: whatever the row order of the raw feed, the series returned by
\* fetch_vix has no missing value, holds exactly the dates of the feed that
\* are not earlier than the first date with an observed value, and gives
\* every date the value observed at it or, where the raw value is missing,
\* the value of the most recent earlier-dated observation.
C15_VixFill ==
    (call.op = "fetch_vix" /\ pc = "done" /\ error = NoError) =>
        /\ \A i \in DOMAIN df.rows :
            /\ df.rows[i].vix_close # NaN
            /\ df.rows[i].vix_close \in DueAt(last.records, df.rows[i].date)
        /\ {df.rows[i].date : i \in DOMAIN df.rows}
             = { last.records[i].date : i \in { j \in DOMAIN last.records :
                   \E o \in Observations(last.records) : o.date <= last.records[j].date } }

\* C16: existing entries are not rewritten while cache use is enabled. A
\* load with use_cache true whose artifact exists takes the cache-read path,
\* and no step of a load on that path changes a file or the directory; a
\* step that changes a file which exists is a step of a load with use_cache
\* false, or the filling of the file that the load itself has just created.
C16_NoRewriteWhileCacheEnabled ==
    [][/\ (call.op \in {"load_ticker", "load_vix"} /\ call.use_cache
             /\ path = "miss" /\ pc \notin {"writing", "done"}) => ~Artifact.exists
       /\ (path = "hit" \/ path' = "hit") =>
            /\ cache' = cache
            /\ dir_exists' = dir_exists
       /\ \A f \in Files :
            (cache[f].exists /\ cache'[f] # cache[f] /\ pc # "writing") =>
                ~call.use_cache]_vars

\* A load with use_cache true has read a complete artifact that is present.
C16_Witness ==
    /\ call.op \in {"load_ticker", "load_vix"}
    /\ call.use_cache
    /\ path = "hit"
    /\ pc = "done"
    /\ error = NoError
    /\ Len(df.rows) > 0
    /\ Artifact = ToCsv(df)

\* C17: first occurrence wins. When the response holds several records of
\* one date, wherever they stand in it, the fetch succeeds and the row kept
\* for every date is the record of that date that comes first in the order
\* of the response.
C17_FirstOccurrenceWins ==
    (call.op = "fetch_ticker_from_tiingo" /\ pc = "done" /\ last.transport = "ok") =>
        /\ last.records # NoRecords => error = NoError
        /\ LET kept == KeepColumns(last.records)
           IN  \A i \in DOMAIN df.rows :
                 \E j \in DOMAIN kept :
                    /\ kept[j] = df.rows[i]
                    /\ \A k \in 1..j - 1 : kept[k].date # df.rows[i].date

\* C18: a failed fetch leaves the cache untouched. Every step that creates
\* the cache directory or creates or changes a file is a step of the saving
\* part of a load on the fetch path, taken after the fetch has succeeded and
\* returned its frame; a load whose fetch fails makes no such step.
C18_FailedFetchTouchesNothing ==
    [][(cache' # cache \/ dir_exists' # dir_exists) =>
          /\ call.op \in {"load_ticker", "load_vix"}
          /\ path = "miss"
          /\ pc \in {"makedirs", "to_csv", "writing"}
          /\ ~FetchInputFails
          /\ last.transport = "ok"
          /\ error = NoError
          /\ df.columns # << >>
          /\ \A f \in Files : cache'[f] # cache[f] => f = CachePath(call)]_vars

\* A load on the fetch path has failed after the retries, in a cache
\* directory that still does not exist.
C18_Witness ==
    /\ LoadOnFetchPath
    /\ FetchInputFails
    /\ SeenRetryable
    /\ error.exc = "ConnectionError"
    /\ requests = _MAX_RETRIES + 1
    /\ ~dir_exists
    /\ \A f \in Files : ~cache[f].exists

\* The file holds a normalized price series: it parses, its columns are
\* exactly the three price columns and its dates are strictly ascending.
HoldsNormalizedSeries(file) ==
    /\ file.header = <<"date">> \o PriceColumns
    /\ ReadTickerCsv(file).error = NoError
    /\ StrictlyAscending(ReadTickerCsv(file).df.rows)

\* C19: from the empty cache directory and under load_ticker calls alone,
\* whenever no write is under way every artifact present holds a normalized
\* series, and every series that load_ticker returns, on either path, has
\* strictly ascending unique dates and exactly the three price columns.
C19_CacheHoldsNormalizedSeries ==
    pc \in {"idle", "done"} =>
        /\ \A f \in Files : cache[f].exists => HoldsNormalizedSeries(cache[f])
        /\ (pc = "done" /\ error = NoError) =>
            /\ df.columns = PriceColumns
            /\ StrictlyAscending(df.rows)

\* C20: artifact keys do not collide. The artifact path of a load_ticker
\* call depends on the ticker only up to letter case, it is never the
\* artifact path of load_vix, whatever the ticker, and so a load that hits
\* the cache never reads an artifact written for the other kind of series.
C20_NoKeyCollision ==
    /\ call.op = "load_ticker" =>
        /\ CachePath(call) = CachePath([call EXCEPT !.ticker = upper(call.ticker)])
        /\ CachePath(call) # CachePath([call EXCEPT !.op = "load_vix"])
        /\ path = "hit" => "vix_close" \notin Range(Artifact.header)
    /\ (call.op = "load_vix" /\ path = "hit") => "adjOpen" \notin Range(Artifact.header)

====
